---- MODULE Spec2Model ----
(***************************************************************************)
(* A model of logictables.py: the gate classes and their push-based        *)
(* propagation (_send_out / process / toggle), the TruthTable enumerator   *)
(* (generate_table / _get_outputs / number_to_boolean) and the circuit     *)
(* file loader (circuit_load).                                             *)
(*                                                                         *)
(* Gate objects live in a heap (a sequence of records, in creation order); *)
(* a reference to a gate is its heap index.  Python lists are sequences    *)
(* read with the 0-based helpers At and SetAt.                             *)
(***************************************************************************)
EXTENDS Integers, Sequences, FiniteSets, TLC

\* Number of consecutive generate_table() calls made on one table.
MaxRuns == 2

\* Length of the exhaustively enumerated circuit files (GenFiles).
MaxLines == 2

------------------------------------------------------------------------------
(* Python list helpers, 0-based. *)

At(s, i) == s[i + 1]

SetAt(s, i, v) == [s EXCEPT ![i + 1] = v]

\* range(n)
Range(n) == 0 .. (n - 1)

\* A list subscript lst[p] is defined for -len <= p < len; otherwise Python
\* raises IndexError.
ValidIndex(p, len) == (0 - len) <= p /\ p < len

\* The position a valid subscript denotes (negative ones count from the end).
NormIndex(p, len) == IF p < 0 THEN p + len ELSE p

------------------------------------------------------------------------------
(* Gate classes. *)

InputTypes == {"IN", "TRUE", "FALSE"}

BinaryTypes == {"AND", "OR", "XOR", "NAND", "NOR", "XNOR"}

UnaryTypes == {"NOT", "DIODE"}

SplitterTypes == {"SPLIT", "SWITCH"}

GateTypes == {"OUT"} \cup InputTypes \cup BinaryTypes \cup UnaryTypes \cup SplitterTypes

\* The 'ports' argument each subclass constructor passes to _Gate.__init__
\* (OutGate sets inputs = [False] itself).
Ports(type) == IF type \in BinaryTypes THEN 2 ELSE 1

\* _Gate.__init__: the object a constructor leaves behind.  OutGate.__init__
\* does not call it and has no out_gates; SwitchGate adds direction; TrueGate
\* overwrites inputs[0] and outputs[0] with True.
NewGate(type, name, out_gates, out_ports) ==
    [type      |-> type,
     name      |-> name,
     out_gates |-> IF type = "OUT" THEN << >> ELSE out_gates,
     out_ports |-> IF type = "OUT" THEN << >> ELSE out_ports,
     inputs    |-> [k \in 1 .. Ports(type) |-> type = "TRUE"],
     outputs   |-> IF type = "OUT" THEN << FALSE >>
                   ELSE [k \in 1 .. Len(out_gates) |-> type = "TRUE"],
     direction |-> FALSE]

\* An entry of the call log kept while one row is produced:
\*   "toggle"  the enumerator calls toggle(val) of gate g, its input number i
\*   "const"   the enumerator calls process() of gate g, its constant number i
\*   "read"    the enumerator calls state_name() of gate g, its output number i
\*   "enter"   process() of gate g starts (ins: its inputs, val: its direction)
\*   "return"  process() of gate g returns
\*   "write"   _send_out of gate g stores outputs[i] = val in inputs[port] of gate to
\*   "raise"   that store, or self.inputs[i], raises IndexError
Event(ev, g, i, to, port, val) ==
    [ev |-> ev, g |-> g, i |-> i, to |-> to, port |-> port, val |-> val, ins |-> << >>]

EnterEvent(g, gate) ==
    [ev |-> "enter", g |-> g, i |-> 0, to |-> 0, port |-> 0,
     val |-> gate.direction, ins |-> gate.inputs]

\* XOR computed as an inclusive or.
XorRule_Inclusive(a, b) == a \/ b

\* SWITCH that does not force its non-selected output low.
SwitchRule_BothDriven(direction, a) == << a, a >>

\* The boolean rule of each single-output gate's process().
AndRule(a, b) == a /\ b

OrRule(a, b) == a \/ b

XorRule(a, b) == (a \/ b) /\ ~(a /\ b)

NandRule(a, b) == ~(a /\ b)

NorRule(a, b) == ~(a \/ b)

XnorRule(a, b) == ~((a \/ b) /\ ~(a /\ b))

NotRule(a) == ~a

DiodeRule(a) == a

\* SplitGate.process: both outputs take the input.
SplitRule(a) == << a, a >>

\* SwitchGate.process: outputs[int(direction)] = inputs[0] and
\* outputs[(int(direction)+1)%2] = False.
SwitchRule(direction, a) ==
    LET sel == IF direction THEN 1 ELSE 0
        non == (sel + 1) % 2
    IN  SetAt(SetAt(<< FALSE, FALSE >>, sel, a), non, FALSE)

\* Compute without line 378: the non-selected output of a SWITCH keeps the
\* value it had.
Compute_HoldSwitch(gate) ==
    LET a == At(gate.inputs, 0)
        b == At(gate.inputs, 1)
        t == gate.type
    IN  CASE t = "OUT"    -> SetAt(gate.outputs, 0, a)
          [] t = "AND"    -> SetAt(gate.outputs, 0, a /\ b)
          [] t = "OR"     -> SetAt(gate.outputs, 0, a \/ b)
          [] t = "XOR"    -> SetAt(gate.outputs, 0, a # b)
          [] t = "NAND"   -> SetAt(gate.outputs, 0, ~(a /\ b))
          [] t = "NOR"    -> SetAt(gate.outputs, 0, ~(a \/ b))
          [] t = "XNOR"   -> SetAt(gate.outputs, 0, a = b)
          [] t = "NOT"    -> SetAt(gate.outputs, 0, ~a)
          [] t = "DIODE"  -> SetAt(gate.outputs, 0, a)
          [] t = "SPLIT"  -> << a, a >>
          [] t = "SWITCH" -> SetAt(gate.outputs, IF gate.direction THEN 1 ELSE 0, a)
          [] OTHER        -> gate.outputs

\* The assignment to self.outputs that process() makes before _send_out().
\* IN, TRUE and FALSE assign nothing.
Compute(gate) ==
    LET a == At(gate.inputs, 0)
        b == At(gate.inputs, 1)
        t == gate.type
    IN  CASE t = "OUT"    -> SetAt(gate.outputs, 0, a)
          [] t = "AND"    -> SetAt(gate.outputs, 0, AndRule(a, b))
          [] t = "OR"     -> SetAt(gate.outputs, 0, OrRule(a, b))
          [] t = "XOR"    -> SetAt(gate.outputs, 0, XorRule(a, b))
          [] t = "NAND"   -> SetAt(gate.outputs, 0, NandRule(a, b))
          [] t = "NOR"    -> SetAt(gate.outputs, 0, NorRule(a, b))
          [] t = "XNOR"   -> SetAt(gate.outputs, 0, XnorRule(a, b))
          [] t = "NOT"    -> SetAt(gate.outputs, 0, NotRule(a))
          [] t = "DIODE"  -> SetAt(gate.outputs, 0, DiodeRule(a))
          [] t = "SPLIT"  -> SplitRule(a)
          [] t = "SWITCH" -> SwitchRule(gate.direction, a)
          [] OTHER        -> gate.outputs

RECURSIVE process(_, _)
RECURSIVE send_from(_, _, _)

\* _send_out that stores every output before it calls any downstream gate.
send_from_WritesFirst(m, g, i) ==
    IF m.err \/ i >= Len(m.heap[g].outputs) THEN m
    ELSE LET gate == m.heap[g]
             ok(k) == ValidIndex(At(gate.out_ports, k), Len(m.heap[At(gate.out_gates, k)].inputs))
             store(mm, k) ==
                 LET d == At(gate.out_gates, k)
                     p == At(gate.out_ports, k)
                     v == At(gate.outputs, k)
                 IN  [mm EXCEPT
                        !.heap[d].inputs = SetAt(@, NormIndex(p, Len(@)), v),
                        !.log = Append(@, Event("write", g, k, d, p, v))]
         IN  IF \E k \in i .. (Len(gate.outputs) - 1) : ~ok(k)
             THEN [m EXCEPT !.err = TRUE,
                            !.log = Append(@, Event("raise", g, i, 0, 0, FALSE))]
             ELSE IF i + 1 = Len(gate.outputs)
                  THEN process(store(m, i), At(gate.out_gates, i))
                  ELSE process(process(store(store(m, i), i + 1), At(gate.out_gates, i)),
                               At(gate.out_gates, i + 1))

\* One iteration of the loop of _Gate._send_out and the iterations after it:
\* write outputs[i] into the downstream port, call the downstream gate's
\* process(), go on with i + 1.  m = [heap, log, err]; an IndexError raised by
\* the write sets err and unwinds every caller.
send_from(m, g, i) ==
    IF m.err \/ i >= Len(m.heap[g].outputs) THEN m
    ELSE LET d == At(m.heap[g].out_gates, i)
             p == At(m.heap[g].out_ports, i)
             v == At(m.heap[g].outputs, i)
             n == Len(m.heap[d].inputs)
         IN  IF ~ValidIndex(p, n)
             THEN [m EXCEPT !.err = TRUE,
                            !.log = Append(@, Event("raise", g, i, d, p, v))]
             ELSE LET w == [m EXCEPT
                              !.heap[d].inputs = SetAt(@, NormIndex(p, n), v),
                              !.log = Append(@, Event("write", g, i, d, p, v))]
                  IN  send_from(process(w, d), g, i + 1)

\* OutGate without its override: the inherited loop reads self.out_gates,
\* which OutGate.__init__ never sets, and raises.
send_out_Inherited(m, g) ==
    IF m.heap[g].type = "OUT"
    THEN [m EXCEPT !.err = TRUE, !.log = Append(@, Event("raise", g, 0, 0, 0, FALSE))]
    ELSE send_from(m, g, 0)

\* _Gate._send_out; OutGate overrides it with pass.
send_out(m, g) == IF m.heap[g].type = "OUT" THEN m ELSE send_from(m, g, 0)

\* process() of every gate class: assign the outputs, then _send_out()
\* (OutGate.process only assigns).
process(m, g) ==
    IF m.err THEN m
    ELSE LET entered == [m EXCEPT
                           !.heap[g].outputs = Compute(m.heap[g]),
                           !.log = Append(@, EnterEvent(g, m.heap[g]))]
             sent == send_out(entered, g)
         IN  IF sent.err THEN sent
             ELSE [sent EXCEPT !.log = Append(@, Event("return", g, 0, 0, 0, FALSE))]

\* toggle that records the state and does not send it on.
toggle_StateOnly(m, g, state) ==
    IF m.heap[g].type = "SWITCH"
    THEN [m EXCEPT !.heap[g].direction = state]
    ELSE [m EXCEPT !.heap[g].inputs = SetAt(@, 0, state),
                   !.heap[g].outputs = SetAt(@, 0, state)]

\* InGate.toggle and SwitchGate.toggle.
toggle(m, g, state) ==
    IF m.heap[g].type = "SWITCH"
    THEN process([m EXCEPT !.heap[g].direction = state], g)
    ELSE send_out([m EXCEPT !.heap[g].inputs = SetAt(@, 0, state),
                            !.heap[g].outputs = SetAt(@, 0, state)], g)

\* A state_name keyed on the gate's output, not its input.
state_name_OutputKeyed(gate) ==
    IF gate.type = "SWITCH"
    THEN IF gate.direction = FALSE THEN "L"
         ELSE IF gate.direction = TRUE THEN "R" ELSE "?"
    ELSE IF At(gate.outputs, 0) = FALSE THEN "F"
         ELSE IF At(gate.outputs, 0) = TRUE THEN "T" ELSE "?"

\* _Gate.state_name and SwitchGate.state_name.
state_name(gate) ==
    IF gate.type = "SWITCH"
    THEN IF gate.direction = FALSE THEN "L"
         ELSE IF gate.direction = TRUE THEN "R" ELSE "?"
    ELSE IF At(gate.inputs, 0) = FALSE THEN "F"
         ELSE IF At(gate.inputs, 0) = TRUE THEN "T" ELSE "?"

------------------------------------------------------------------------------
(* number_to_boolean *)

\* math.ceil(math.log(bound, 2)), in exact arithmetic: the least w with
\* 2^w >= bound.
CeilLog2(bound) == CHOOSE w \in 0 .. bound : 2^w >= bound /\ \A v \in 0 .. (w - 1) : 2^v < bound

RECURSIVE BinDigits(_)
\* The digits of format(num, "b"): most significant first, no leading zero,
\* a single 0 for zero.
BinDigits(num) == IF num < 2 THEN << num >> ELSE Append(BinDigits(num \div 2), num % 2)

\* "{0:0<width>b}".format(num): zero-padded on the left to at least width
\* characters, never truncated.
FormatBinary(num, width) ==
    LET d == BinDigits(num)
    IN  IF Len(d) >= width THEN d ELSE [k \in 1 .. (width - Len(d)) |-> 0] \o d

number_to_boolean(num, bound) ==
    LET fstring == FormatBinary(num, CeilLog2(bound))
    IN  [k \in 1 .. Len(fstring) |-> fstring[k] # 0]

------------------------------------------------------------------------------
(* TruthTable *)

\* TruthTable.__init__: the three lists of gate references.
TruthTable(inputs, constants, outputs) ==
    [inputs |-> inputs, constants |-> constants, outputs |-> outputs]

\* The constants are not prompted to re-send their signals.
constants_from_Skip(m, t, j) == m

RECURSIVE constants_from(_, _, _)
\* The inner loop of _get_outputs: self.constants[j].process() for j, j+1, ...
constants_from(m, t, j) ==
    IF m.err \/ j >= Len(t.constants) THEN m
    ELSE LET c == At(t.constants, j)
             called == [m EXCEPT !.log = Append(@, Event("const", c, j, 0, 0, FALSE))]
         IN  constants_from(process(called, c), t, j + 1)

RECURSIVE inputs_from(_, _, _, _)
\* The outer loop of _get_outputs from index i on: toggle input i with its
\* value, then run the inner loop over all the constants.
inputs_from(m, t, input_values, i) ==
    IF m.err \/ i >= Len(input_values) THEN m
    ELSE IF i >= Len(t.inputs)
         THEN [m EXCEPT !.err = TRUE,
                        !.log = Append(@, Event("raise", 0, i, 0, 0, FALSE))]
         ELSE LET g == At(t.inputs, i)
                  v == At(input_values, i)
                  called == [m EXCEPT !.log = Append(@, Event("toggle", g, i, 0, 0, v))]
              IN  inputs_from(constants_from(toggle(called, g, v), t, 0),
                              t, input_values, i + 1)

\* [out.state_name() for out in self.outputs], each call logged.
ReadLog(t) == [k \in 1 .. Len(t.outputs) |-> Event("read", t.outputs[k], k - 1, 0, 0, FALSE)]

RECURSIVE toggles_from(_, _, _, _)
toggles_from(m, t, input_values, k) ==
    IF m.err \/ k >= Len(input_values) THEN m
    ELSE LET g == At(t.inputs, k)
             v == At(input_values, k)
             called == [m EXCEPT !.log = Append(@, Event("toggle", g, k, 0, 0, v))]
         IN  toggles_from(toggle(called, g, v), t, input_values, k + 1)

\* _get_outputs with the loop over the constants after, not inside, the
\* loop over the inputs.
get_outputs_ConstantsLast(m, t, input_values) ==
    LET after == constants_from(toggles_from(m, t, input_values, 0), t, 0)
    IN  IF after.err THEN [m |-> after, out |-> << >>]
        ELSE [m   |-> [after EXCEPT !.log = @ \o ReadLog(t)],
              out |-> [k \in 1 .. Len(t.outputs) |-> state_name(after.heap[t.outputs[k]])]]

\* TruthTable._get_outputs: the machine after the loops, and the list returned.
get_outputs(m, t, input_values) ==
    LET after == inputs_from(m, t, input_values, 0)
    IN  IF after.err THEN [m |-> after, out |-> << >>]
        ELSE [m   |-> [after EXCEPT !.log = @ \o ReadLog(t)],
              out |-> [k \in 1 .. Len(t.outputs) |-> state_name(after.heap[t.outputs[k]])]]

\* The guard without its test of the outputs.
Quits_InputsOnly(t) == Len(t.inputs) = 0

\* The guard at the head of generate_table: TRUE when it quits at once.
Quits(t) == Len(t.inputs) = 0 \/ Len(t.outputs) = 0

\* The label row: the names of the inputs, then of the outputs.
LabelRow(h, t) ==
    [k \in 1 .. Len(t.inputs) |-> h[t.inputs[k]].name]
        \o [k \in 1 .. Len(t.outputs) |-> h[t.outputs[k]].name]

\* A data row: state_name() of every input after _get_outputs, then the
\* output list it returned.
DataRow(h, t, output_set) ==
    [k \in 1 .. Len(t.inputs) |-> state_name(h[t.inputs[k]])] \o output_set

------------------------------------------------------------------------------
(* circuit_load *)

\* A line of a circuit file is the list of its whitespace-separated tokens
\* (line.split()); a comment line is one whose first character is "#", shown
\* as a first token "#"; a blank line has no token.

\* str.upper() on the type tokens that occur in the files below.
Upper(tok) ==
    CASE tok = "out"    -> "OUT"
      [] tok = "in"     -> "IN"
      [] tok = "true"   -> "TRUE"
      [] tok = "Xor"    -> "XOR"
      [] tok = "switch" -> "SWITCH"
      [] tok = "foo"    -> "FOO"
      [] OTHER          -> tok

\* int(tok) succeeds on these tokens and raises ValueError on any other.
IsInt(tok) == tok \in {"-1", "0", "1", "2"}

IntOf(tok) ==
    CASE tok = "-1" -> 0 - 1
      [] tok = "0"  -> 0
      [] tok = "1"  -> 1
      [] tok = "2"  -> 2

\* gates = {}
EmptyDict == [n \in {} |-> 0]

\* gates[name] = idx
DictSet(dict, name, idx) ==
    [n \in DOMAIN dict \cup {name} |-> IF n = name THEN idx ELSE dict[n]]

\* "if (line[0] == "#") or (len(line) <= 1): continue"
Skipped(line) == Len(line) = 0 \/ line[1] = "#"

\* The number of tokens each branch of the loader demands of its line.
ArgCount(gate_type) ==
    IF gate_type = "OUT" THEN 2 ELSE IF gate_type \in SplitterTypes THEN 6 ELSE 4

\* A loader that does not put SWITCH gates on the inputs list.
Registers_SwitchUnlisted(gate_type) ==
    CASE gate_type = "IN"                -> "inputs"
      [] gate_type \in {"TRUE", "FALSE"} -> "constants"
      [] gate_type = "OUT"               -> "outputs"
      [] OTHER                           -> "none"

\* The TruthTable list a new gate is appended to, if any.
Registers(gate_type) ==
    CASE gate_type \in {"IN", "SWITCH"}  -> "inputs"
      [] gate_type \in {"TRUE", "FALSE"} -> "constants"
      [] gate_type = "OUT"               -> "outputs"
      [] OTHER                           -> "none"

\* An error exit that hands back what was built so far.
ErrorReturn_Partial(st) == [gates |-> st.gates, table |-> st.table]

\* "return {}, TruthTable()" of the three error exits.
ErrorReturn(st) == [gates |-> EmptyDict, table |-> TruthTable(<< >>, << >>, << >>)]

\* The downstream names and the port tokens of a line with the right count.
OutNames(line) == IF Len(line) = 6 THEN << line[3], line[4] >> ELSE << line[3] >>

PortTokens(line) == IF Len(line) = 6 THEN << line[5], line[6] >> ELSE << line[4] >>

\* How the body of the loop ends for one line, given the dictionary so far:
\*   "skip"       comment or blank line
\*   "raise"      an exception the function does not catch (line_split[1] on a
\*                one-token line, int() on a port that is no integer)
\*   "unknown"    the else branch: unknown gate type
\*   "IndexError" wrong number of arguments
\*   "KeyError"   a downstream name missing from the dictionary
\*   "define"     a gate is created
LineOutcome(dict, line) ==
    IF Skipped(line) THEN "skip"
    ELSE IF Len(line) < 2 THEN "raise"
    ELSE LET gate_type == Upper(line[2])
         IN  IF gate_type \notin GateTypes THEN "unknown"
             ELSE IF Len(line) # ArgCount(gate_type) THEN "IndexError"
             ELSE IF gate_type = "OUT" THEN "define"
             ELSE IF \E k \in 1 .. Len(OutNames(line)) : OutNames(line)[k] \notin DOMAIN dict
                  THEN "KeyError"
             ELSE IF \E k \in 1 .. Len(PortTokens(line)) : ~IsInt(PortTokens(line)[k])
                  THEN "raise"
             ELSE "define"

\* A loader that enters the new name in the dictionary before it looks up
\* the downstream names, so that a line can name the gate it defines.
DefineGate_NameFirst(st, line) ==
    LET gate_name == line[1]
        gate_type == Upper(line[2])
        idx   == Len(st.heap) + 1
        named == DictSet(st.gates, gate_name, idx)
        out   == IF gate_type = "OUT" THEN << >>
                 ELSE [k \in 1 .. Len(OutNames(line)) |-> named[OutNames(line)[k]]]
        port  == IF gate_type = "OUT" THEN << >>
                 ELSE [k \in 1 .. Len(PortTokens(line)) |-> IntOf(PortTokens(line)[k])]
        list  == Registers(gate_type)
    IN  [heap  |-> Append(st.heap, NewGate(gate_type, gate_name, out, port)),
         gates |-> named,
         table |-> [inputs    |-> IF list = "inputs" THEN Append(st.table.inputs, idx)
                                  ELSE st.table.inputs,
                    constants |-> IF list = "constants" THEN Append(st.table.constants, idx)
                                  ELSE st.table.constants,
                    outputs   |-> IF list = "outputs" THEN Append(st.table.outputs, idx)
                                  ELSE st.table.outputs]]

\* The gate a well-formed line creates, and the loader's locals after it:
\* st = [heap, gates, table].
DefineGate(st, line) ==
    LET gate_name == line[1]
        gate_type == Upper(line[2])
        out   == IF gate_type = "OUT" THEN << >>
                 ELSE [k \in 1 .. Len(OutNames(line)) |-> st.gates[OutNames(line)[k]]]
        port  == IF gate_type = "OUT" THEN << >>
                 ELSE [k \in 1 .. Len(PortTokens(line)) |-> IntOf(PortTokens(line)[k])]
        idx   == Len(st.heap) + 1
        list  == Registers(gate_type)
    IN  [heap  |-> Append(st.heap, NewGate(gate_type, gate_name, out, port)),
         gates |-> DictSet(st.gates, gate_name, idx),
         table |-> [inputs    |-> IF list = "inputs" THEN Append(st.table.inputs, idx)
                                  ELSE st.table.inputs,
                    constants |-> IF list = "constants" THEN Append(st.table.constants, idx)
                                  ELSE st.table.constants,
                    outputs   |-> IF list = "outputs" THEN Append(st.table.outputs, idx)
                                  ELSE st.table.outputs]]

------------------------------------------------------------------------------
(* The circuit files the loader is run on. *)

\* The name the k-th line of an enumerated file defines.
GenName(k) == << "A", "B", "C", "D", "E", "F" >>[k]

PortMenu == {"0", "1"}

\* Every line that may stand k-th in an enumerated file: any gate type, wired
\* to any gate(s) defined on the lines before it, at any port of the menu.
GenLine(k) ==
    {<< GenName(k), "OUT" >>}
    \cup {<< GenName(k), t, GenName(j), p >> :
            t \in InputTypes \cup BinaryTypes \cup UnaryTypes, j \in 1 .. (k - 1), p \in PortMenu}
    \cup {<< GenName(k), t, GenName(j[1]), GenName(j[2]), p[1], p[2] >> :
            t \in SplitterTypes, j \in (1 .. (k - 1)) \X (1 .. (k - 1)), p \in PortMenu \X PortMenu}

RECURSIVE GenFilesOfLen(_)
GenFilesOfLen(n) ==
    IF n = 0 THEN {<< >>}
    ELSE {Append(f, l) : f \in GenFilesOfLen(n - 1), l \in GenLine(n)}

\* All files of at most MaxLines such lines.
GenFiles == UNION {GenFilesOfLen(n) : n \in 0 .. MaxLines}

\* The two-line file of the round-trip example.
MinimalFile == << << "A", "OUT" >>, << "B", "IN", "A", "0" >> >>

\* One binary gate between two inputs and an output.
BinaryFile(t) ==
    << << "A", "OUT" >>, << "G", t, "A", "0" >>,
       << "B", "IN", "G", "0" >>, << "C", "IN", "G", "1" >> >>

\* Three inputs through an OR and an AND gate (eight rows).
ThreeInputFile ==
    << << "A", "OUT" >>, << "G", "AND", "A", "0" >>, << "H", "OR", "G", "0" >>,
       << "B", "IN", "H", "0" >>, << "C", "IN", "H", "1" >>, << "D", "IN", "G", "1" >> >>

\* A SPLIT or SWITCH (t) fed by an IN, TRUE or FALSE gate (c), its branch 0
\* reaching output A through a NOT gate and its branch 1 output B directly;
\* a second, independent input D drives output E.
SplitterFile(t, c) ==
    << << "A", "OUT" >>, << "N", "NOT", "A", "0" >>, << "B", "OUT" >>,
       << "S", t, "N", "B", "0", "0" >>, << "C", c, "S", "0" >>,
       << "E", "OUT" >>, << "D", "IN", "E", "0" >> >>

\* A constant through a SWITCH straight into two outputs.
ConstSwitchFile(c) ==
    << << "A", "OUT" >>, << "B", "OUT" >>,
       << "S", "SWITCH", "A", "B", "0", "0" >>, << "C", c, "S", "0" >> >>

\* A constant through a SWITCH whose branch 0 is wired into an IN gate.
SwitchIntoInputFile(c) ==
    << << "A", "OUT" >>, << "B", "IN", "A", "0" >>, << "E", "OUT" >>,
       << "S", "SWITCH", "B", "E", "0", "0" >>, << "C", c, "S", "0" >> >>

\* Reconvergent SPLIT branches: both branches of S meet again in gate G.
ReconvergentFile(t) ==
    << << "A", "OUT" >>, << "G", t, "A", "0" >>, << "N", "NOT", "G", "1" >>,
       << "S", "SPLIT", "G", "N", "0", "0" >>, << "B", "IN", "S", "0" >> >>

\* A SWITCH steering an input into one of the two ports of gate G, whose
\* other port a constant drives through a second SWITCH.
TwoSwitchFile ==
    << << "A", "OUT" >>, << "G", "XOR", "A", "0" >>, << "B", "OUT" >>,
       << "S", "SWITCH", "G", "B", "0", "0" >>, << "T", "SWITCH", "G", "S", "1", "0" >>,
       << "C", "TRUE", "T", "0" >>, << "D", "IN", "S", "0" >> >>

\* The circuit built under "if __name__ == '__main__'", written as a file.
ExampleFile ==
    << << "#", "example" >>,
       << "OUT", "OUT" >>,
       << "And0", "AND", "OUT", "0" >>,
       << "And10", "AND", "And0", "0" >>,
       << "And11", "AND", "And0", "1" >>,
       << >>,
       << "Split", "SPLIT", "And10", "And11", "1", "0" >>,
       << "Xor20", "XOR", "And10", "0" >>,
       << "Xor21", "Xor", "Split", "0" >>,
       << "And22", "AND", "And11", "1" >>,
       << "Switch1", "switch", "Xor20", "Xor21", "1", "0" >>,
       << "Switch2", "SWITCH", "Xor21", "And22", "1", "0" >>,
       << "IN1", "in", "Xor20", "0" >>,
       << "IN2", "IN", "Switch1", "0" >>,
       << "IN3", "IN", "Switch2", "0" >>,
       << "IN4", "IN", "And22", "1" >> >>

\* A chain of two gates of any single-output type above an output.
ChainFile(x, y) ==
    << << "A", "OUT" >>, << "B", x, "A", "0" >>, << "C", y, "B", "0" >> >>

\* A gate (t) above an output, with two input or constant gates (x, y) wired
\* to any two of its ports, in range or not, the same or not.
TwoDriverFile(t, x, y, p) ==
    << << "A", "OUT" >>, << "G", t, "A", "0" >>,
       << "B", x, "G", p[1] >>, << "C", y, "G", p[2] >> >>

\* A name defined twice; ports that are out of range or negative.
OddFiles ==
    { << << "A", "OUT" >>, << "B", "IN", "A", "0" >>, << "A", "OUT" >>, << "C", "IN", "A", "0" >> >>,
      << << "A", "out" >>, << "G", "AND", "A", "0" >>, << "B", "IN", "G", "2" >> >>,
      << << "A", "OUT" >>, << "G", "AND", "A", "-1" >>, << "B", "IN", "G", "-1" >>,
         << "C", "true", "G", "0" >> >>,
      << << "A", "OUT" >>, << "B", "IN", "A", "-1" >>, << "C", "IN", "A", "2" >> >>,
      << << "A", "OUT" >>, << "A", "IN", "A", "0" >> >>,
      << << "A", "OUT" >>, << "B", "NOT", "A", "0" >>, << "B", "SPLIT", "B", "A", "0", "0" >>,
         << "B", "IN", "B", "0" >> >> }

\* Files every line of which the loader accepts.
GoodFiles ==
    {MinimalFile, ThreeInputFile, TwoSwitchFile, ExampleFile}
    \cup {BinaryFile(t) : t \in BinaryTypes}
    \cup {SplitterFile(t, c) : t \in SplitterTypes, c \in InputTypes}
    \cup {ConstSwitchFile(c) : c \in {"TRUE", "FALSE"}}
    \cup {SwitchIntoInputFile(c) : c \in {"TRUE", "FALSE"}}
    \cup {ReconvergentFile(t) : t \in {"AND", "XOR", "NOR"}}
    \cup {ChainFile(x, y) : x, y \in InputTypes \cup BinaryTypes \cup UnaryTypes}
    \cup {TwoDriverFile(t, x, y, p) : t \in BinaryTypes \cup UnaryTypes,
                                      x \in InputTypes, y \in InputTypes,
                                      p \in PortMenu \X PortMenu}
    \cup OddFiles

\* Lines the loader does not accept: an unknown type, a wrong number of
\* tokens for the type, a downstream name that is not defined ("Q", or the
\* line's own name), a single token, a port that is no integer.
BadLines ==
    { << "Z", "FOO" >>, << "Z", "foo", "A", "0" >>, << "Z", "INPUT", "A", "0" >>,
      << "Z", "OUT", "A" >>, << "Z", "IN", "A" >>, << "Z", "AND", "A", "0", "1" >>,
      << "Z", "NOT", "A", "0", "A", "0" >>, << "Z", "SPLIT", "A", "A", "0" >>,
      << "Z", "SWITCH", "A", "0" >>, << "Z", "TRUE" >>,
      << "Z", "NOT", "Q", "0" >>, << "Z", "IN", "Z", "0" >>,
      << "Z", "SPLIT", "A", "Q", "0", "0" >>, << "Z", "SWITCH", "Q", "A", "0", "0" >>,
      << "Z", "DIODE", "Q", "x" >>,
      << "Z" >>, << "Z", "IN", "A", "x" >>, << "Z", "SPLIT", "A", "A", "0", "x" >> }

\* A good file with one bad line put in at any place.
BadFiles ==
    { << << "A", "OUT" >>, << "Z" >>, << "Y", "FOO" >> >>,
      << << "A", "OUT" >>, << "Y", "FOO" >>, << "Z" >> >>,
      << << "A", "OUT" >>, << "B", "IN", "A", "0" >>, << "Z", "NOT", "Q", "0" >>,
         << "Y", "FOO" >>, << "C", "IN", "A", "0" >> >> }
    \cup
    UNION {{SubSeq(f, 1, k) \o << b >> \o SubSeq(f, k + 1, Len(f)) :
                k \in 0 .. Len(f), b \in BadLines} :
           f \in {MinimalFile, BinaryFile("AND"), ConstSwitchFile("TRUE")}}

Files == GenFiles \cup GoodFiles \cup BadFiles

------------------------------------------------------------------------------
(* The program: circuit_load(file), then generate_table() on the table it
   returned or on a table the caller built from the loaded gates. *)

VARIABLES
    file,     \* the lines of the circuit file
    pc,       \* "load", "loaded", "load_raised", "rows", "returned", "raised"
    lineno,   \* circuit_load: the number of lines read so far
    heap,     \* every gate object created, in creation order
    gates,    \* circuit_load: the dictionary name -> gate (heap index)
    table,    \* the TruthTable: its inputs, constants and outputs lists
    diag,     \* the error circuit_load reported ("" for none)
    run,      \* the number of generate_table() calls started
    i,        \* generate_table: the row index of the loop
    msg,      \* generate_table: the "Quitting." message printed ("" for none)
    label,    \* generate_table: the label row printed (<< >> for none)
    rows,     \* generate_table: the data rows printed by the current call
    prev,     \* the data rows printed by the call before the current one
    log       \* the calls and writes made while the last row was produced

vars == << file, pc, lineno, heap, gates, table, diag, run, i, msg, label, rows, prev, log >>

loader == << file, lineno, gates, diag >>

printed == << msg, label, rows, prev >>

Init ==
    /\ file \in Files
    /\ pc = "load"
    /\ lineno = 0
    /\ heap = << >>
    /\ gates = EmptyDict
    /\ table = TruthTable(<< >>, << >>, << >>)
    /\ diag = ""
    /\ run = 0
    /\ i = 0
    /\ msg = ""
    /\ label = << >>
    /\ rows = << >>
    /\ prev = << >>
    /\ log = << >>

\* The line the loop of circuit_load is about to read.
CurrentLine == file[lineno + 1]

Reading == pc = "load" /\ lineno < Len(file)

\* circuit_load: a comment or blank line is passed over.
SkipLine ==
    /\ Reading
    /\ LineOutcome(gates, CurrentLine) = "skip"
    /\ lineno' = lineno + 1
    /\ UNCHANGED << file, pc, heap, gates, table, diag, run, i, printed, log >>

\* circuit_load: a well-formed line creates its gate, wires it to the gates
\* it names and registers it.
DefineLine ==
    /\ Reading
    /\ LineOutcome(gates, CurrentLine) = "define"
    /\ LET st == DefineGate([heap |-> heap, gates |-> gates, table |-> table], CurrentLine)
       IN  /\ heap' = st.heap
           /\ gates' = st.gates
           /\ table' = st.table
    /\ lineno' = lineno + 1
    /\ UNCHANGED << file, pc, diag, run, i, printed, log >>

\* circuit_load: the three error exits, each "return {}, TruthTable()".
RejectLine ==
    /\ Reading
    /\ LineOutcome(gates, CurrentLine) \in {"unknown", "KeyError", "IndexError"}
    /\ diag' = LineOutcome(gates, CurrentLine)
    /\ LET ret == ErrorReturn([heap |-> heap, gates |-> gates, table |-> table])
       IN  /\ gates' = ret.gates
           /\ table' = ret.table
    /\ pc' = "loaded"
    /\ UNCHANGED << file, lineno, heap, run, i, printed, log >>

\* circuit_load: an exception no except clause catches leaves the function.
CrashLine ==
    /\ Reading
    /\ LineOutcome(gates, CurrentLine) = "raise"
    /\ pc' = "load_raised"
    /\ UNCHANGED << file, lineno, heap, gates, table, diag, run, i, printed, log >>

\* circuit_load: after the last line, "table = TruthTable(inputs=inputs,
\* constants=constants, outputs=outputs)" and "return gates, table".
LoadReturn ==
    /\ pc = "load"
    /\ lineno = Len(file)
    /\ table' = TruthTable(table.inputs, table.constants, table.outputs)
    /\ pc' = "loaded"
    /\ UNCHANGED << file, lineno, heap, gates, diag, run, i, printed, log >>

\* sequence reversed
Reverse(s) == [k \in 1 .. Len(s) |-> s[Len(s) + 1 - k]]

\* Tables a caller builds by hand over the loaded gates, as the example
\* under __main__ does: keyword arguments left out default to [], and the
\* inputs may be listed in another order than the gates were created in.
HandTables(t) ==
    { TruthTable(t.inputs, << >>, t.outputs),
      TruthTable(t.inputs, t.constants, << >>),
      TruthTable(<< >>, t.constants, t.outputs),
      TruthTable(Reverse(t.inputs), t.constants, t.outputs) }

\* TruthTable(inputs=..., constants=..., outputs=...) called by hand.
HandBuild ==
    /\ pc = "loaded"
    /\ diag = ""
    /\ run = 0
    /\ \E t \in HandTables(table) : table' = t
    /\ pc' = "built"
    /\ UNCHANGED << file, lineno, heap, gates, diag, run, i, printed, log >>

Callable == pc \in {"loaded", "built", "returned", "raised"} /\ run < MaxRuns

\* generate_table on a table without inputs or without outputs: the message
\* and "return None".
Quit ==
    /\ Callable
    /\ Quits(table)
    /\ run' = run + 1
    /\ msg' = IF Len(table.inputs) = 0 THEN "No input gates defined. Quitting."
              ELSE "No output gates defined. Quitting."
    /\ label' = << >>
    /\ rows' = << >>
    /\ prev' = rows
    /\ log' = << >>
    /\ pc' = "returned"
    /\ UNCHANGED << file, lineno, heap, gates, table, diag, i >>

\* generate_table: the guards pass, the label row is printed and the loop
\* over range(2**len(self.inputs)) starts.
Begin ==
    /\ Callable
    /\ ~Quits(table)
    /\ run' = run + 1
    /\ msg' = ""
    /\ label' = LabelRow(heap, table)
    /\ rows' = << >>
    /\ prev' = rows
    /\ log' = << >>
    /\ i' = 0
    /\ pc' = "rows"
    /\ UNCHANGED << file, lineno, heap, gates, table, diag >>

\* generate_table: one iteration of the loop, a row printed; an IndexError
\* raised underneath ends the call.
Row ==
    /\ pc = "rows"
    /\ i < 2^Len(table.inputs)
    /\ LET input_set == number_to_boolean(i, 2^Len(table.inputs))
           got == get_outputs([heap |-> heap, log |-> << >>, err |-> FALSE],
                              table, input_set)
       IN  /\ heap' = got.m.heap
           /\ log' = got.m.log
           /\ IF got.m.err
              THEN /\ pc' = "raised"
                   /\ UNCHANGED << rows, i >>
              ELSE /\ rows' = Append(rows, DataRow(got.m.heap, table, got.out))
                   /\ i' = i + 1
                   /\ pc' = pc
    /\ UNCHANGED << file, lineno, gates, table, diag, run, msg, label, prev >>

\* generate_table: the loop is over.
Return ==
    /\ pc = "rows"
    /\ i = 2^Len(table.inputs)
    /\ pc' = "returned"
    /\ UNCHANGED << file, lineno, heap, gates, table, diag, run, i, printed, log >>

Next ==
    \/ SkipLine
    \/ DefineLine
    \/ RejectLine
    \/ CrashLine
    \/ LoadReturn
    \/ HandBuild
    \/ Quit
    \/ Begin
    \/ Row
    \/ Return

Spec == Init /\ [][Next]_vars

\* The guard of Row: the loop of generate_table has a row left to print.
RowEnabled == pc = "rows" /\ i < 2^Len(table.inputs)

\* A step of Row: the only step that leaves a call in its loop or raised.
RowStep == pc = "rows" /\ pc' \in {"rows", "raised"}

\* The loop of generate_table goes on by itself: once a call is in its loop
\* the next row is produced, and after the last row the call returns.  When
\* (and whether) generate_table is called is up to the caller.  The weak
\* fairness of Row is written out with its guard and its effect on pc.
FairSpec ==
    /\ Spec
    /\ ([]<>(~RowEnabled) \/ []<><<RowStep>>_vars)
    /\ WF_vars(Return)

------------------------------------------------------------------------------
(* Notions the properties below are stated in. *)

\* The number of variable inputs of the table.
N == Len(table.inputs)

\* The k-th bit (k = 1 the most significant) of num written in n binary digits.
Bit(num, k, n) == ((num \div 2^(n - k)) % 2) = 1

\* The state code a gate shows for a boolean value.
Shows(gate, b) ==
    IF gate.type = "SWITCH" THEN (IF b THEN "R" ELSE "L") ELSE (IF b THEN "T" ELSE "F")

\* A generate_table() call has printed its label row and not raised.
Enumerating == pc \in {"rows", "returned"} /\ msg = "" /\ run > 0

\* The last Row step ran _get_outputs to its end.
RowDone == Enumerating /\ Len(rows) > 0

\* Every wire of the heap names a port the downstream gate has.
PortsInRange ==
    \A g \in 1 .. Len(heap) : \A k \in 1 .. Len(heap[g].out_gates) :
        /\ 0 <= heap[g].out_ports[k]
        /\ heap[g].out_ports[k] < Len(heap[heap[g].out_gates[k]].inputs)

\* The wires (g, k) that end in port p of gate d.
Drivers(d, p) ==
    {w \in (1 .. Len(heap)) \X {1, 2} :
        /\ w[2] <= Len(heap[w[1]].out_gates)
        /\ heap[w[1]].out_gates[w[2]] = d
        /\ heap[w[1]].out_ports[w[2]] = p}

------------------------------------------------------------------------------
(* C1 *)

\* C1: a generate_table() call that returns has printed exactly 2^N data
\* rows, and in every row printed, row i (0-based) shows for the k-th declared
\* variable input the k-th bit of i, most significant first, in N digits.
C1_RowsShowBinaryExpansion ==
    Enumerating =>
        /\ pc = "returned" => Len(rows) = 2^N
        /\ \A r \in 1 .. Len(rows) : \A k \in 1 .. N :
              rows[r][k] = Shows(heap[table.inputs[k]], Bit(r - 1, k, N))

\* The same for the tables none of whose variable inputs is itself the
\* destination of a wire: there the claim holds.
C1_UndrivenInputsShowBinaryExpansion ==
    (Enumerating /\ \A k \in 1 .. N : Drivers(table.inputs[k], 0) = {}
                 /\ \A j1, j2 \in 1 .. N : j1 # j2 => table.inputs[j1] # table.inputs[j2])
        => C1_RowsShowBinaryExpansion

------------------------------------------------------------------------------
(* C2 *)

\* C2: when generate_table() is called again on the unchanged graph, the
\* call prints the same sequence of data rows as the call before it.
C2_Idempotent ==
    (run >= 2 /\ pc \in {"returned", "raised"}) => rows = prev

\* A second call has returned on the circuit with two SWITCH gates and a
\* constant, after a first call that left gates set.
C2_Witness ==
    /\ file = TwoSwitchFile
    /\ run = 2
    /\ pc = "returned"
    /\ Len(rows) = 8
    /\ \E r \in 1 .. 8 : rows[r][4] = "T"
    /\ \E g \in 1 .. Len(heap) : heap[g].inputs[1]

------------------------------------------------------------------------------
(* C3 *)

\* The calls the enumerator itself makes, in order.
TopLevel(l) == SelectSeq(l, LAMBDA e : e.ev \in {"toggle", "const", "read"})

\* process() calls entered and not yet returned after the first p events.
Depth(l, p) ==
    Cardinality({q \in 1 .. p : l[q].ev = "enter"})
        - Cardinality({q \in 1 .. p : l[q].ev = "return"})

ToggleCall(t, num, k) ==
    Event("toggle", t.inputs[k], k - 1, 0, 0, Bit(num, k, Len(t.inputs)))

ConstCalls(t) ==
    [j \in 1 .. Len(t.constants) |-> Event("const", t.constants[j], j - 1, 0, 0, FALSE)]

\* Row num as the claim has it: all toggles, then all constants, then the reads.
ClaimedCalls(t, num) ==
    [k \in 1 .. Len(t.inputs) |-> ToggleCall(t, num, k)] \o ConstCalls(t) \o ReadLog(t)

\* Row num with all the constants after every single toggle, then the reads.
ActualCalls(t, num) ==
    LET c == Len(t.constants)
        n == Len(t.inputs)
    IN  [p \in 1 .. n * (1 + c) |->
            LET k == ((p - 1) \div (1 + c)) + 1
                j == (p - 1) % (1 + c)
            IN  IF j = 0 THEN ToggleCall(t, num, k) ELSE ConstCalls(t)[j]]
        \o ReadLog(t)

IsPrefix(a, b) == Len(a) <= Len(b) /\ a = SubSeq(b, 1, Len(a))

\* Every call of the enumerator is made with no process() still running.
CallsSettled(l) ==
    \A p \in 1 .. Len(l) : l[p].ev \in {"toggle", "const", "read"} => Depth(l, p) = 0

\* C3 as claimed: in each row the inputs are toggled in declared order, then
\* (only after all N toggles) the constants are re-evaluated in declared
\* order, then the outputs are read in declared order.
C3_ConstantsAfterAllToggles ==
    RowDone => TopLevel(log) = ClaimedCalls(table, i - 1)

\* C3 amended: in each row the inputs are toggled in declared order, each
\* toggle propagating fully before the next call; after every toggle, not
\* only the last, all constants are re-evaluated in declared order; the
\* outputs are read, in declared order, after the constants' re-evaluation
\* that follows the N-th toggle.  A row cut short by IndexError made a prefix
\* of these calls.
C3_ConstantsAfterEveryToggle ==
    /\ RowDone => TopLevel(log) = ActualCalls(table, i - 1) /\ CallsSettled(log)
    /\ pc = "raised" => IsPrefix(TopLevel(log), ActualCalls(table, i)) /\ CallsSettled(log)

\* A finished row of a table with two inputs and a constant, in which a
\* constant was re-evaluated before the second toggle.
C3_Witness ==
    /\ RowDone
    /\ N >= 2
    /\ Len(table.constants) >= 1
    /\ \E p, q \in 1 .. Len(log) : p < q /\ log[p].ev = "const" /\ log[q].ev = "toggle"

------------------------------------------------------------------------------
(* C4 *)

\* C4: a TRUE or FALSE gate c of the table drives (alone) a SWITCH s that is
\* a variable input, whose two wires are the only ones into port 0 of two
\* different gates: after every row the gate on the selected side shows the
\* constant's value and the other one false, in its state and, when it is
\* an output of the table, in the row printed.
C4_ConstantReachesSelectedBranch ==
    RowDone =>
      \A jc \in 1 .. Len(table.constants) :
        LET c == table.constants[jc]
            s == heap[c].out_gates[1]
            d0 == heap[s].out_gates[1]
            d1 == heap[s].out_gates[2]
            sel == IF heap[s].direction THEN d1 ELSE d0
            non == IF heap[s].direction THEN d0 ELSE d1
            v == IF heap[c].type = "TRUE" THEN "T" ELSE "F"
            row == rows[Len(rows)]
        IN  ( /\ heap[c].out_ports = << 0 >>
              /\ heap[s].type = "SWITCH"
              /\ \E k \in 1 .. N : table.inputs[k] = s
              /\ heap[s].out_ports = << 0, 0 >>
              /\ d0 # d1
              /\ heap[d0].type # "SWITCH" /\ heap[d1].type # "SWITCH"
              /\ Drivers(s, 0) = {<< c, 1 >>}
              /\ Drivers(d0, 0) = {<< s, 1 >>}
              /\ Drivers(d1, 0) = {<< s, 2 >>} )
            => /\ state_name(heap[sel]) = v
               /\ state_name(heap[non]) = "F"
               /\ \A k \in 1 .. Len(table.outputs) :
                    /\ table.outputs[k] = sel => row[N + k] = v
                    /\ table.outputs[k] = non => row[N + k] = "F"

\* The TRUE constant behind a SWITCH into outputs A and B: the first row
\* (direction left) shows A true, the row after the change of direction
\* shows B true and A false.
C4_Witness ==
    /\ file = ConstSwitchFile("TRUE")
    /\ pc = "returned"
    /\ Len(table.constants) = 1
    /\ rows = << << "L", "T", "F" >>, << "R", "F", "T" >> >>

------------------------------------------------------------------------------
(* C5, C6, C7: properties of the call log. *)

\* The position of the "return" that ends the process() entered at p, or 0
\* when an IndexError cut it short.
ReturnOf(l, p) ==
    LET ends == {q \in (p + 1) .. Len(l) :
                    l[q].ev = "return" /\ Depth(l, q) = Depth(l, p) - 1}
    IN  IF ends = {} THEN 0 ELSE CHOOSE q \in ends : \A q2 \in ends : q <= q2

\* The stores made by the _send_out of the process() entered at p: those of
\* the same gate up to its return (or to the end of a log cut short).
WritesOf(l, p) ==
    LET last == IF ReturnOf(l, p) = 0 THEN Len(l) ELSE ReturnOf(l, p)
    IN  {q \in (p + 1) .. last : l[q].ev = "write" /\ l[q].g = l[p].g}

\* The value stored at q is what the downstream gate's process() then finds
\* in the port the wire names.
Delivered(l, q) ==
    /\ q < Len(l)
    /\ l[q + 1].ev = "enter"
    /\ l[q + 1].g = l[q].to
    /\ l[q + 1].ins[l[q].port + 1] = l[q].val

\* The textbook function of each gate variant.
Standard(type, x) ==
    CASE type = "AND"   -> x[1] /\ x[2]
      [] type = "OR"    -> x[1] \/ x[2]
      [] type = "XOR"   -> x[1] # x[2]
      [] type = "NAND"  -> ~(x[1] /\ x[2])
      [] type = "NOR"   -> ~(x[1] \/ x[2])
      [] type = "XNOR"  -> x[1] = x[2]
      [] type = "NOT"   -> ~x[1]
      [] type = "DIODE" -> x[1]
      [] type = "SPLIT" -> x[1]

\* The gates process() was called on while the last row was produced.
Processed == {log[p].g : p \in {q \in 1 .. Len(log) : log[q].ev = "enter"}}

C6_SwitchRoutesAndForcesLow ==
    /\ \A p \in 1 .. Len(log) :
         (log[p].ev = "enter" /\ heap[log[p].g].type = "SWITCH")
         => LET d == log[p].val
                a == log[p].ins[1]
            IN  /\ \A q \in WritesOf(log, p) :
                     /\ log[q].i = 0 => log[q].val = (IF d THEN FALSE ELSE a)
                     /\ log[q].i = 1 => log[q].val = (IF d THEN a ELSE FALSE)
                     /\ log[q].port >= 0 => Delivered(log, q)
                /\ ReturnOf(log, p) # 0 => {log[q].i : q \in WritesOf(log, p)} = {0, 1}
    /\ \A p \in 1 .. Len(log) :
         (log[p].ev = "toggle" /\ heap[log[p].g].type = "SWITCH")
         => /\ p < Len(log)
            /\ log[p + 1].ev = "enter"
            /\ log[p + 1].g = log[p].g
            /\ log[p + 1].val = log[p].val
    /\ \A g \in Processed :
         heap[g].type = "SWITCH"
         => heap[g].outputs =
              IF heap[g].direction THEN << FALSE, heap[g].inputs[1] >>
              ELSE << heap[g].inputs[1], FALSE >>

\* A SWITCH toggled to the right while its input is true: its first port,
\* which the row before had left true, receives false and its second true.
C6_Witness ==
    /\ file = SplitterFile("SWITCH", "IN")
    /\ Len(rows) >= 2
    /\ rows[Len(rows) - 1][1] = "L" /\ rows[Len(rows) - 1][2] = "T"
    /\ \E p \in 1 .. Len(log) :
         /\ log[p].ev = "toggle" /\ heap[log[p].g].type = "SWITCH" /\ log[p].val
         /\ log[p + 1].ins = << TRUE >>
         /\ \E q0, q1 \in WritesOf(log, p + 1) :
              /\ log[q0].i = 0 /\ ~log[q0].val /\ Delivered(log, q0)
              /\ log[q1].i = 1 /\ log[q1].val /\ Delivered(log, q1)

\* C7: every store of _send_out is followed at once by the process() of the
\* gate written to; the next store of the same _send_out comes only after
\* that process() and all it triggered have returned, directly after, and
\* is that of the next output index; the first store is that of output 0.
C7_DepthFirstPropagation ==
    \A p \in 1 .. Len(log) :
       /\ log[p].ev = "write" =>
            /\ p < Len(log)
            /\ log[p + 1].ev = "enter" /\ log[p + 1].g = log[p].to
            /\ LET r == ReturnOf(log, p + 1)
               IN  r # 0 =>
                     /\ log[r].g = log[p].to
                     /\ \A q \in (p + 1) .. r : log[q].g = log[p].g => log[q].ev # "write"
                     /\ \A q \in (p + 1) .. r : Depth(log, q) >= Depth(log, p)
                     /\ log[p].i + 1 < Len(heap[log[p].g].out_gates) =>
                          /\ r < Len(log)
                          /\ log[r + 1].ev \in {"write", "raise"}
                          /\ log[r + 1].g = log[p].g
                          /\ log[r + 1].i = log[p].i + 1
       /\ (log[p].ev = "enter" /\ WritesOf(log, p) # {}) =>
            /\ log[p + 1].ev = "write" /\ log[p + 1].g = log[p].g /\ log[p + 1].i = 0

\* A SPLIT or SWITCH stores output 0, two gates are processed in a chain
\* below it and return, and only then it stores output 1.
C7_Witness ==
    \E p \in 1 .. Len(log) :
       /\ log[p].ev = "write" /\ log[p].i = 0
       /\ heap[log[p].g].type \in SplitterTypes
       /\ LET r == ReturnOf(log, p + 1)
          IN  /\ r > p + 4
              /\ Cardinality({q \in (p + 1) .. r : log[q].ev = "enter"}) >= 2
              /\ log[r + 1].ev = "write" /\ log[r + 1].g = log[p].g /\ log[r + 1].i = 1

------------------------------------------------------------------------------
(* C8 *)

\* C8: a generate_table() call on a table whose inputs list or outputs
\* list is empty returns at once: it prints its message and no row, calls
\* no gate and leaves every gate as it was; on any other table, whatever its
\* constants list, it prints the label row and enters the loop, and when it
\* returns it has printed 2^N rows.
C8_RefusesInvalidConfiguration ==
    /\ [][run' = run + 1 =>
            IF Len(table.inputs) = 0 \/ Len(table.outputs) = 0
            THEN /\ heap' = heap
                 /\ msg' # ""
                 /\ label' = << >> /\ rows' = << >> /\ log' = << >>
                 /\ pc' = "returned"
            ELSE /\ heap' = heap
                 /\ msg' = ""
                 /\ label' # << >>
                 /\ pc' = "rows"]_vars
    /\ []((pc = "returned" /\ Len(table.inputs) > 0 /\ Len(table.outputs) > 0
              /\ Len(table.constants) = 0 /\ run > 0)
            => Len(rows) = 2^N)

\* generate_table() has quit on a table with inputs and gates but no output.
C8_Witness ==
    /\ pc = "returned"
    /\ msg = "No output gates defined. Quitting."
    /\ N > 0
    /\ Len(heap) > 1
    /\ rows = << >> /\ label = << >>
    /\ \A g \in 1 .. Len(heap) : heap[g].inputs[1] = (heap[g].type = "TRUE")

------------------------------------------------------------------------------
(* C9 *)

\* C9: in every graph that reaches evaluation each wire names a port that
\* the downstream gate has, and evaluation never stores outside a gate's
\* inputs (no IndexError).
C9_PortsValidatedAtConstruction ==
    (Enumerating \/ pc = "raised") => (PortsInRange /\ pc # "raised")

------------------------------------------------------------------------------
(* C10 *)

ClaimTypes ==
    {"OUT", "IN", "TRUE", "FALSE", "AND", "OR", "XOR", "NAND", "NOR", "XNOR",
     "NOT", "DIODE", "SPLIT", "SWITCH"}

\* The token count the claim requires for a type.
ClaimCount(type) ==
    IF type = "OUT" THEN 2 ELSE IF type \in {"SPLIT", "SWITCH"} THEN 6 ELSE 4

IsGateLine(l) == Len(l) >= 2 /\ l[1] # "#"

\* The names defined on the lines before line k.
DefinedBefore(f, k) == {f[j][1] : j \in {j2 \in 1 .. (k - 1) : IsGateLine(f[j2])}}

\* The downstream names of a line with the required count.
References(l) ==
    IF Len(l) = 6 THEN {l[3], l[4]} ELSE IF Len(l) = 4 THEN {l[3]} ELSE {}

\* (a) unrecognized TYPE
BadType(f, k) == IsGateLine(f[k]) /\ Upper(f[k][2]) \notin ClaimTypes

\* (b) recognized TYPE, wrong token count
BadCount(f, k) ==
    /\ IsGateLine(f[k])
    /\ Upper(f[k][2]) \in ClaimTypes
    /\ Len(f[k]) # ClaimCount(Upper(f[k][2]))

\* (c) a downstream name not defined on an earlier line
BadReference(f, k) ==
    /\ IsGateLine(f[k])
    /\ Upper(f[k][2]) \in ClaimTypes
    /\ Len(f[k]) = ClaimCount(Upper(f[k][2]))
    /\ ~(References(f[k]) \subseteq DefinedBefore(f, k))

\* A line the claim does not speak of, on which the loader raises instead
\* of returning: a single token, or a port that is no integer.
Uncaught(f, k) ==
    /\ Len(f[k]) >= 1 /\ f[k][1] # "#"
    /\ ~BadType(f, k) /\ ~BadCount(f, k) /\ ~BadReference(f, k)
    /\ \/ Len(f[k]) = 1
       \/ Len(f[k]) = 4 /\ ~IsInt(f[k][4])
       \/ Len(f[k]) = 6 /\ (~IsInt(f[k][5]) \/ ~IsInt(f[k][6]))

\* The first line of kind (a), (b) or (c), or 0.
FirstBad(f) ==
    LET bad == {k \in 1 .. Len(f) : BadType(f, k) \/ BadCount(f, k) \/ BadReference(f, k)}
    IN  IF bad = {} THEN 0 ELSE CHOOSE k \in bad : \A k2 \in bad : k <= k2

\* C10: when the file has a line of kind (a), (b) or (c), the lines before
\* the first such line being accepted, the loader reads no line past it and
\* returns there an empty dictionary and a table with three empty lists
\* (and reports the matching error), whatever was built before.
C10_LoadAllOrNothing ==
    LET k == FirstBad(file)
    IN  (k # 0 /\ \A j \in 1 .. (k - 1) : ~Uncaught(file, j)) =>
          /\ lineno <= k - 1
          /\ pc # "load" =>
               /\ pc \in {"loaded", "returned"}
               /\ lineno = k - 1
               /\ gates = EmptyDict
               /\ table = [inputs |-> << >>, constants |-> << >>, outputs |-> << >>]
               /\ rows = << >>
               /\ diag = (IF BadType(file, k) THEN "unknown"
                          ELSE IF BadCount(file, k) THEN "IndexError" ELSE "KeyError")

\* The loader has given up on an undefined name after three gates were
\* built, two of them registered in the lists.
C10_Witness ==
    /\ pc = "loaded"
    /\ diag = "KeyError"
    /\ lineno >= 3
    /\ Len(heap) >= 3
    /\ \E g \in 1 .. Len(heap) : heap[g].type = "IN"
    /\ gates = EmptyDict
    /\ table.inputs = << >> /\ table.outputs = << >>

------------------------------------------------------------------------------
(* C11 *)

\* The numbers of the lines of f that define a gate, in file order.
GateLines(f) == SelectSeq([k \in 1 .. Len(f) |-> k], LAMBDA k : IsGateLine(f[k]))

\* The line of f that defines its g-th gate.
GateLine(f, g) == f[GateLines(f)[g]]

\* The gates of f whose type is in types, in file order.
GatesOfType(f, types) ==
    SelectSeq([g \in 1 .. Len(GateLines(f)) |-> g],
              LAMBDA g : Upper(GateLine(f, g)[2]) \in types)

\* The gate a name stands for on the line of gate g: the one defined last
\* under that name on the lines before (0 when there is none).
Named(f, g, name) ==
    LET before == {j \in 1 .. (g - 1) : GateLine(f, j)[1] = name}
    IN  IF before = {} THEN 0 ELSE CHOOSE j \in before : \A j2 \in before : j2 <= j

\* circuit_load has returned from its last line.
Loaded == pc = "loaded" /\ diag = ""

\* C11: on a successful load there is one gate object per gate line, of the
\* line's type and name; the table's inputs are the IN and SWITCH gates, its
\* constants the TRUE and FALSE gates and its outputs the OUT gates, each in
\* file order; every gate but an OUT gate is wired to the gate(s) its line
\* names at the port(s) its line gives; and the file "A OUT" / "B IN A 0"
\* prints the two rows (B, A) = (F, F) and (T, T).
C11_LoadedTableMatchesFile ==
    /\ Loaded =>
         /\ Len(heap) = Len(GateLines(file))
         /\ table.inputs = GatesOfType(file, {"IN", "SWITCH"})
         /\ table.constants = GatesOfType(file, {"TRUE", "FALSE"})
         /\ table.outputs = GatesOfType(file, {"OUT"})
         /\ \A g \in 1 .. Len(heap) :
              LET l == GateLine(file, g)
              IN  /\ heap[g].type = Upper(l[2])
                  /\ heap[g].name = l[1]
                  /\ gates[l[1]] = Named(file, Len(heap) + 1, l[1])
                  /\ IF heap[g].type = "OUT"
                     THEN heap[g].out_gates = << >> /\ Len(heap[g].inputs) = 1
                     ELSE /\ Len(heap[g].out_gates) = Len(OutNames(l))
                          /\ Len(heap[g].out_ports) = Len(OutNames(l))
                          /\ \A k \in 1 .. Len(OutNames(l)) :
                               /\ heap[g].out_gates[k] = Named(file, g, OutNames(l)[k])
                               /\ heap[g].out_gates[k] \in 1 .. (g - 1)
                               /\ heap[g].out_ports[k] = IntOf(PortTokens(l)[k])
    /\ (file = MinimalFile /\ pc = "returned" /\ msg = "") =>
         rows = << << "F", "F" >>, << "T", "T" >> >>

\* A file with IN and SWITCH gates, a constant, two outputs, a comment or
\* blank line or a name defined twice has been loaded.
C11_Witness ==
    /\ Loaded
    /\ \E a, b \in 1 .. Len(table.inputs) :
         heap[table.inputs[a]].type = "IN" /\ heap[table.inputs[b]].type = "SWITCH"
    /\ Len(table.constants) > 0
    /\ Len(table.outputs) > 1

------------------------------------------------------------------------------
(* C12 *)

\* The wires (g, k) whose store lands in input slot s (1-based) of gate d.
SlotDrivers(h, d, s) ==
    {w \in (1 .. Len(h)) \X {1, 2} :
        /\ w[2] <= Len(h[w[1]].out_gates)
        /\ h[w[1]].out_gates[w[2]] = d
        /\ ValidIndex(h[w[1]].out_ports[w[2]], Len(h[d].inputs))
        /\ NormIndex(h[w[1]].out_ports[w[2]], Len(h[d].inputs)) = s - 1}

\* No input slot is the end of two wires.
SinglyDriven(h) ==
    \A d \in 1 .. Len(h) : \A s \in 1 .. Len(h[d].inputs) :
        Cardinality(SlotDrivers(h, d, s)) <= 1

\* The variable inputs and constants of a table.
Sources(t) ==
    {t.inputs[k] : k \in 1 .. Len(t.inputs)} \cup {t.constants[k] : k \in 1 .. Len(t.constants)}

RECURSIVE Fed(_, _, _)
\* Gate g is a source of the table or is reached by wires from one.
Fed(h, t, g) ==
    \/ g \in Sources(t)
    \/ \E s \in 1 .. Len(h[g].inputs) : \E w \in SlotDrivers(h, g, s) : Fed(h, t, w[1])

\* The value row number num gives each variable input of the table.
Assignment(t, num) ==
    [g \in {t.inputs[k] : k \in 1 .. Len(t.inputs)} |->
        Bit(num, CHOOSE k \in 1 .. Len(t.inputs) : t.inputs[k] = g, Len(t.inputs))]

RECURSIVE Signal(_, _, _, _)
\* The circuit as a pure boolean function: the value on output k of gate g
\* under the assignment asg, an undriven slot reading false.
Signal(h, asg, g, k) ==
    LET slot(s) == LET dr == SlotDrivers(h, g, s)
                   IN  IF dr = {} THEN FALSE
                       ELSE LET w == CHOOSE w \in dr : TRUE
                            IN  Signal(h, asg, w[1], w[2])
        type == h[g].type
    IN  CASE type = "IN"     -> asg[g]
          [] type = "TRUE"   -> TRUE
          [] type = "FALSE"  -> FALSE
          [] type = "OUT"    -> slot(1)
          [] type = "SWITCH" -> IF asg[g] = (k = 2) THEN slot(1) ELSE FALSE
          [] OTHER           -> Standard(type, << slot(1), slot(2) >>)

\* The claim's graphs: single drivers, every gate fed by the table.
Combinational ==
    /\ SinglyDriven(heap)
    /\ \A g \in 1 .. Len(heap) : Fed(heap, table, g)

\* C12: in a graph with at most one wire per input slot and every gate
\* reached from the table's inputs and constants, each output column of each
\* printed row shows the value the circuit has, as a pure boolean function,
\* under that row's assignment.
C12_SettledOutputsAreCombinational ==
    (RowDone /\ Combinational) =>
        \A r \in 1 .. Len(rows) : \A k \in 1 .. Len(table.outputs) :
            rows[r][N + k] =
                (IF Signal(heap, Assignment(table, r - 1), table.outputs[k], 1)
                 THEN "T" ELSE "F")

\* A table of at least two inputs has been enumerated to the end on such a
\* graph, a gate was evaluated more than once within the last row, and an
\* output changed between two rows.
C12_Witness ==
    /\ RowDone /\ pc = "returned" /\ Combinational
    /\ N >= 2
    /\ \E p, q \in 1 .. Len(log) :
         p < q /\ log[p].ev = "enter" /\ log[q].ev = "enter" /\ log[p].g = log[q].g
    /\ \E r \in 2 .. Len(rows) : \E k \in 1 .. Len(table.outputs) :
         rows[r][N + k] # rows[r - 1][N + k]

------------------------------------------------------------------------------
(* C13 *)

\* Every wire of every gate ends in a gate created before it.
WiresPointBack ==
    \A g \in 1 .. Len(heap) : \A k \in 1 .. Len(heap[g].out_gates) :
        heap[g].out_gates[k] \in 1 .. (g - 1)

\* Every process() is called either by the enumerator or right after a
\* store of _send_out into its gate, and every store goes from a gate to a
\* gate created earlier; so no chain of nested calls is longer than the
\* number of gates.
CallsDescend ==
    \A p \in 1 .. Len(log) :
        /\ log[p].ev = "write" => log[p].to < log[p].g
        /\ log[p].ev = "enter" =>
             /\ p > 1
             /\ log[p - 1].ev \in {"write", "toggle", "const"}
             /\ log[p].g = (IF log[p - 1].ev = "write" THEN log[p - 1].to ELSE log[p - 1].g)
        /\ Depth(log, p) <= Len(heap)

\* A generate_table() call is over: it has returned or raised.
Finished == pc \in {"returned", "raised"}

\* C13: every wire ends in a gate created on an earlier line (also when a
\* name is defined twice), every nested process() call is that of an earlier
\* gate than its caller's, the row counter stays within 2^N, and every
\* generate_table() call that has started its loop returns or raises.
C13_GenerateTableTerminates ==
    /\ [](WiresPointBack /\ CallsDescend /\ (pc = "rows" => i <= 2^N))
    /\ [](pc = "rows" => <>Finished)

\* A file that defines a name twice, with a wire to the earlier gate of that
\* name, has been loaded and its table enumerated to the end, with nested
\* process() calls.
C13_Witness ==
    /\ pc = "returned" /\ RowDone
    /\ \E g \in 1 .. Len(heap) : \E k \in 1 .. Len(heap[g].out_gates) :
         heap[heap[g].out_gates[k]].name = heap[g].name
    /\ \E p \in 1 .. Len(log) : Depth(log, p) >= 2

------------------------------------------------------------------------------
(* C14 *)

\* Every value a gate holds is a boolean.
BooleanState ==
    \A g \in 1 .. Len(heap) :
        /\ \A k \in 1 .. Len(heap[g].inputs) : heap[g].inputs[k] \in BOOLEAN
        /\ \A k \in 1 .. Len(heap[g].outputs) : heap[g].outputs[k] \in BOOLEAN
        /\ heap[g].direction \in BOOLEAN

\* The code the claim gives a gate: "L"/"R" by the direction of a SWITCH,
\* "F"/"T" by input slot 0 of any other gate.
ClaimedName(gate) ==
    IF gate.type = "SWITCH" THEN (IF gate.direction THEN "R" ELSE "L")
    ELSE (IF gate.inputs[1] THEN "T" ELSE "F")

\* C14: in every state every gate holds booleans only and its state_name()
\* is "L"/"R" by direction for a SWITCH and "F"/"T" by input slot 0 for any
\* other gate, never "?"; the row printed last shows these codes for the
\* table's inputs and outputs.
C14_StateNameNeverUnknown ==
    /\ BooleanState
    /\ \A g \in 1 .. Len(heap) :
         /\ state_name(heap[g]) = ClaimedName(heap[g])
         /\ state_name(heap[g]) # "?"
    /\ RowDone =>
         LET row == rows[Len(rows)]
         IN  /\ \A k \in 1 .. N : row[k] = ClaimedName(heap[table.inputs[k]])
             /\ \A k \in 1 .. Len(table.outputs) :
                  row[N + k] = ClaimedName(heap[table.outputs[k]])
             /\ \A k \in 1 .. Len(row) : row[k] \in {"T", "F", "L", "R"}

\* After a table was enumerated a SWITCH points right, one gate has a true
\* input slot 0, another a false one while its output is true, and one
\* printed row shows "L".
C14_Witness ==
    /\ pc = "returned" /\ RowDone
    /\ \E g \in 1 .. Len(heap) : heap[g].type = "SWITCH" /\ heap[g].direction
    /\ \E g, d \in 1 .. Len(heap) :
         /\ heap[g].type # "SWITCH" /\ heap[g].inputs[1]
         /\ heap[d].type # "SWITCH" /\ ~heap[d].inputs[1] /\ heap[d].outputs[1]
    /\ \E r \in 1 .. Len(rows) : \E k \in 1 .. N : rows[r][k] = "L"

------------------------------------------------------------------------------
(* C15 *)

\* The OUT gates created so far.
OutGates == {g \in 1 .. Len(heap) : heap[g].type = "OUT"}

\* process() of gate g run on the present heap with an empty log.
Evaluated(g) == process([heap |-> heap, log |-> << >>, err |-> FALSE], g)

\* C15: process() of an OUT gate, run in any state, copies the gate's input
\* slot 0 to its output slot and leaves every other field of every gate as
\* it was, makes no store and no further call and returns; in every row
\* each process() of an OUT gate is followed at once by its return, and no
\* store is ever made from an OUT gate.
C15_OutGateIsTerminalSink ==
    /\ \A g \in OutGates :
         /\ Evaluated(g).heap = [heap EXCEPT ![g].outputs = << heap[g].inputs[1] >>]
         /\ Evaluated(g).log = << EnterEvent(g, heap[g]), Event("return", g, 0, 0, 0, FALSE) >>
         /\ ~Evaluated(g).err
    /\ \A p \in 1 .. Len(log) :
         /\ (log[p].ev = "enter" /\ log[p].g \in OutGates) =>
               /\ p < Len(log)
               /\ log[p + 1].ev = "return" /\ log[p + 1].g = log[p].g
         /\ log[p].ev \in {"write", "raise"} => log[p].g \notin OutGates
    /\ RowDone => \A g \in OutGates \cap Processed : heap[g].outputs = << heap[g].inputs[1] >>

\* In the last row an OUT gate was evaluated after a store of true into it,
\* at the end of a chain of at least two nested process() calls, and the
\* propagation went on with another gate after its return.
C15_Witness ==
    /\ RowDone
    /\ \E p \in 2 .. Len(log) :
         /\ log[p].ev = "enter" /\ log[p].g \in OutGates
         /\ log[p - 1].ev = "write" /\ log[p - 1].val
         /\ Depth(log, p) >= 2
         /\ \E q \in (p + 2) .. Len(log) : log[q].ev = "write"

====
